---- MODULE Spec2Model ----
(***************************************************************************)
(* The useFacebookApi hook (the Insights Aggregation Controller) of        *)
(* git-dashboard as a state machine.  The hook's React state slots are the *)
(* variables; every exported callback is an action; every `await` of an    *)
(* async callback splits it into one action per resumption, the response   *)
(* of the reporting endpoint being drawn from a small set.                 *)
(***************************************************************************)
EXTENDS Integers, Sequences, FiniteSets, TLC

\* ------------------------------------------------------------------ bounds

\* Async callbacks that may be suspended at an await at the same time.
MaxInFlight == 2
\* Callbacks invoked in one behaviour of SpecOverlap.
MaxOps == 2
\* Longest list of action records handed to the lookup functions in SpecPure.
MaxRecords == 2

\* ------------------------------------------------------- JavaScript values

\* null / undefined is the empty sequence, a present value v is <<v>>.
Null == <<>>
Some(v) == <<v>>

\* A JavaScript string that is parsed is a sequence of one-character strings.
DigitChars == {"0", "1", "2", "3", "4", "5", "6", "7", "8", "9"}

DigitVal(c) ==
  CASE c = "0" -> 0 [] c = "1" -> 1 [] c = "2" -> 2 [] c = "3" -> 3
    [] c = "4" -> 4 [] c = "5" -> 5 [] c = "6" -> 6 [] c = "7" -> 7
    [] c = "8" -> 8 [] c = "9" -> 9

\* A JavaScript number: the non-negative rational n/d in lowest terms; d = 0 is NaN.
Num(n, d) == [n |-> n, d |-> d]
Zero == Num(0, 1)
NaN == Num(0, 0)
IsNaN(x) == x.d = 0

RECURSIVE GCD(_, _)
GCD(a, b) == IF b = 0 THEN a ELSE GCD(b, a % b)

Norm(n, d) == IF n = 0 THEN Zero ELSE Num(n \div GCD(n, d), d \div GCD(n, d))

\* x > 0 (false for NaN).
Gt0(x) == x.d > 0 /\ x.n > 0

\* a / b for b > 0 (NaN propagates).
Div(a, b) ==
  IF IsNaN(a) \/ IsNaN(b) \/ b.n = 0 THEN NaN
  ELSE Norm(a.n * b.d, a.d * b.n)

RECURSIVE Pow10(_)
Pow10(k) == IF k = 0 THEN 1 ELSE 10 * Pow10(k - 1)

\* Number of digit characters of s starting at position i.
RECURSIVE DigitRun(_, _)
DigitRun(s, i) ==
  IF i <= Len(s) /\ s[i] \in DigitChars THEN 1 + DigitRun(s, i + 1) ELSE 0

\* The decimal value of the k digits of s starting at position i.
RECURSIVE DigitsValue(_, _, _)
DigitsValue(s, i, k) ==
  IF k = 0 THEN 0
  ELSE 10 * DigitsValue(s, i, k - 1) + DigitVal(s[i + k - 1])

\* parseInt: the leading digits, NaN when there are none.
parseInt(s) ==
  LET k == DigitRun(s, 1)
  IN  IF k = 0 THEN NaN ELSE Num(DigitsValue(s, 1, k), 1)

\* parseFloat: leading digits, then optionally "." and digits; NaN when neither.
parseFloat(s) ==
  LET k == DigitRun(s, 1)
      m == IF k < Len(s) /\ s[k + 1] = "." THEN DigitRun(s, k + 2) ELSE 0
  IN  IF k = 0 /\ m = 0 THEN NaN
      ELSE Norm(DigitsValue(s, 1, k) * Pow10(m) + DigitsValue(s, k + 2, m), Pow10(m))

\* `x || '0'` on a string field: undefined and "" are both falsy.
OrZero(s) == IF s = <<>> THEN <<"0">> ELSE s

\* Mutant of Find: the last element with that action_type is returned.
Find_Last(list, type) ==
  LET idx == {i \in DOMAIN list : list[i].action_type = type}
  IN  IF idx = {} THEN Null
      ELSE Some(list[CHOOSE i \in idx : \A j \in idx : j <= i])

\* Array.prototype.find: <<first element with that action_type>>, or Null.
RECURSIVE Find(_, _)
Find(list, type) ==
  IF list = <<>> THEN Null
  ELSE IF Head(list).action_type = type THEN Some(Head(list))
  ELSE Find(Tail(list), type)

\* actions is Null (undefined) or Some(list of [action_type, value]).
parseActions(actions, type) ==
  IF actions = Null THEN Zero
  ELSE LET found == Find(actions[1], type)
       IN  IF found # Null THEN parseFloat(found[1].value) ELSE Zero

\* Mutant of parseInsightsRow: the ratios are computed without their guards.
parseInsightsRow_NoGuard(d) ==
  LET purchases == parseActions(d.actions, "purchase")
      purchaseValue == parseActions(d.action_values, "purchase")
      spend == parseFloat(OrZero(d.spend))
  IN  [spend |-> spend,
       impressions |-> parseInt(OrZero(d.impressions)),
       reach |-> parseInt(OrZero(d.reach)),
       clicks |-> parseInt(OrZero(d.clicks)),
       cpc |-> parseFloat(OrZero(d.cpc)),
       cpm |-> parseFloat(OrZero(d.cpm)),
       ctr |-> parseFloat(OrZero(d.ctr)),
       purchases |-> purchases,
       purchaseValue |-> purchaseValue,
       roas |-> Div(purchaseValue, spend),
       costPerPurchase |-> Div(spend, purchases),
       addToCart |-> parseActions(d.actions, "add_to_cart"),
       leads |-> parseActions(d.actions, "lead")]

parseInsightsRow(d) ==
  LET purchases == parseActions(d.actions, "purchase")
      purchaseValue == parseActions(d.action_values, "purchase")
      spend == parseFloat(OrZero(d.spend))
  IN  [spend |-> spend,
       impressions |-> parseInt(OrZero(d.impressions)),
       reach |-> parseInt(OrZero(d.reach)),
       clicks |-> parseInt(OrZero(d.clicks)),
       cpc |-> parseFloat(OrZero(d.cpc)),
       cpm |-> parseFloat(OrZero(d.cpm)),
       ctr |-> parseFloat(OrZero(d.ctr)),
       purchases |-> purchases,
       purchaseValue |-> purchaseValue,
       roas |-> IF Gt0(spend) THEN Div(purchaseValue, spend) ELSE Zero,
       costPerPurchase |-> IF Gt0(purchases) THEN Div(spend, purchases) ELSE Zero,
       addToCart |-> parseActions(d.actions, "add_to_cart"),
       leads |-> parseActions(d.actions, "lead")]

emptyInsights ==
  [spend |-> Zero, impressions |-> Zero, reach |-> Zero, clicks |-> Zero,
   cpc |-> Zero, cpm |-> Zero, ctr |-> Zero, purchases |-> Zero,
   purchaseValue |-> Zero, roas |-> Zero, costPerPurchase |-> Zero,
   addToCart |-> Zero, leads |-> Zero]

\* String.prototype.slice(k): the characters after the first k.
Slice(s, k) == SubSeq(s, k + 1, Len(s))

parseDailyRow(d) ==
  [date |-> Slice(d.date_start, 5),
   spend |-> parseFloat(OrZero(d.spend)),
   impressions |-> parseInt(OrZero(d.impressions)),
   clicks |-> parseInt(OrZero(d.clicks)),
   purchases |-> parseActions(d.actions, "purchase"),
   revenue |-> parseActions(d.action_values, "purchase"),
   leads |-> parseActions(d.actions, "lead")]

RECURSIVE parseDailyArray(_)
parseDailyArray(data) ==
  IF data = <<>> THEN <<>>
  ELSE <<parseDailyRow(Head(data))>> \o parseDailyArray(Tail(data))

\* ------------------------------------------- the view's own lookups (Dashboard)

\* Dashboard's copy of parseActions, used for action_values.
parseActionValues(actions, type) ==
  IF actions = Null THEN Zero
  ELSE LET found == Find(actions[1], type)
       IN  IF found # Null THEN parseFloat(found[1].value) ELSE Zero

\* The action types counted as a started conversation, in priority order.
messagingActionTypes ==
  <<"onsite_conversion.messaging_conversation_started_7d",
    "onsite_conversion.messaging_conversation_started",
    "onsite_conversion.messaging_first_reply">>

\* Mutant of parseActionsByCandidates: the first record, in record order, whose
\* type is any of the candidates.
parseActionsByCandidates_RecordOrder(actions, candidates) ==
  IF actions = Null THEN Zero
  ELSE LET idx == {i \in DOMAIN actions[1] :
                     \E k \in DOMAIN candidates : actions[1][i].action_type = candidates[k]}
       IN  IF idx = {} THEN Zero
           ELSE parseFloat(actions[1][CHOOSE i \in idx : \A j \in idx : i <= j].value)

\* `for (const candidate of candidates)`: the first candidate found in actions.
RECURSIVE parseActionsByCandidates(_, _)
parseActionsByCandidates(actions, candidates) ==
  IF actions = Null THEN Zero
  ELSE IF candidates = <<>> THEN Zero
  ELSE LET found == Find(actions[1], Head(candidates))
       IN  IF found # Null THEN parseFloat(found[1].value)
           ELSE parseActionsByCandidates(actions, Tail(candidates))

\* Mutant of CampaignRowRoas: the table divides without the spend > 0 guard.
CampaignRowRoas_NoGuard(c) ==
  LET spend == parseFloat(OrZero(c.spend))
      purchaseValue == parseActionValues(c.action_values, "purchase")
  IN  Div(purchaseValue, spend)

\* The ROAS cell of a row of the campaign table.
CampaignRowRoas(c) ==
  LET spend == parseFloat(OrZero(c.spend))
      purchaseValue == parseActionValues(c.action_values, "purchase")
  IN  IF Gt0(spend) THEN Div(purchaseValue, spend) ELSE Zero

\* --------------------------------------------- what the endpoint can answer

ActionRec(type, value) == [action_type |-> type, value |-> value]

\* Account-level rows (GET /<account>/insights).
RowA ==
  [spend |-> <<"1", "0">>, impressions |-> <<"9", "0">>, reach |-> <<"8">>,
   clicks |-> <<"5">>, cpc |-> <<"2">>, cpm |-> <<"1", ".", "5">>, ctr |-> <<"3">>,
   actions |-> Some(<<ActionRec("lead", <<"1">>), ActionRec("purchase", <<"4">>)>>),
   action_values |-> Some(<<ActionRec("purchase", <<"2", "5">>)>>)]

RowB ==
  [spend |-> <<"0">>, impressions |-> <<"7">>, reach |-> <<>>,
   clicks |-> <<>>, cpc |-> <<>>, cpm |-> <<>>, ctr |-> <<>>,
   actions |-> Some(<<ActionRec("purchase", <<"3">>)>>),
   action_values |-> Null]

\* A campaign-scoped row (GET /<campaign>/insights).
RowC ==
  [spend |-> <<"4">>, impressions |-> <<"2", "0">>, reach |-> <<"6">>,
   clicks |-> <<"2">>, cpc |-> <<"2">>, cpm |-> <<>>, ctr |-> <<"1">>,
   actions |-> Some(<<ActionRec("purchase", <<"1">>)>>),
   action_values |-> Some(<<ActionRec("purchase", <<"6">>)>>)]

\* Rows of the campaign breakdown (level=campaign), kept raw in `campaigns`.
Camp1 ==
  [campaign_id |-> "c1", campaign_name |-> "one", spend |-> <<"6">>,
   actions |-> Some(<<ActionRec("purchase", <<"2">>)>>),
   action_values |-> Some(<<ActionRec("purchase", <<"9">>)>>)]

Camp2 ==
  [campaign_id |-> "c2", campaign_name |-> "two", spend |-> <<"0">>,
   actions |-> Null, action_values |-> Null]

CampaignIds == {"c1", "c2"}

\* Rows of the per-day breakdown (time_increment=1).
Day1 ==
  [date_start |-> <<"2", "0", "2", "4", "-", "0", "1", "-", "0", "5">>,
   spend |-> <<"3">>, impressions |-> <<"4", "0">>, clicks |-> <<"2">>,
   actions |-> Some(<<ActionRec("purchase", <<"1">>)>>),
   action_values |-> Some(<<ActionRec("purchase", <<"7">>)>>)]

Day2 ==
  [date_start |-> <<"2", "0", "2", "4", "-", "0", "1", "-", "0", "6">>,
   spend |-> <<"7">>, impressions |-> <<"5", "0">>, clicks |-> <<>>,
   actions |-> Null, action_values |-> Null]

Acc1 == [id |-> "act_1", name |-> "first"]
Acc2 == [id |-> "act_2", name |-> "second"]

Range1 == [since |-> "2024-01-01", until |-> "2024-01-07"]
Range2 == [since |-> "2024-02-01", until |-> "2024-02-07"]

\* The (account, dateRange) pairs the view passes to fetchInsights.
LoadArgs == {<<Acc1, Range1>>, <<Acc2, Range2>>}

Tokens == {"tk"}

ProviderMsg == "Invalid OAuth access token"
TransportMsg == "Failed to fetch"

\* A settled request: the body parsed (with or without an error member, with or
\* without a data member), or fetch()/json() rejected with an Error.
Ok(data) == [kind |-> "ok", message |-> "", data |-> data]
ProviderError == [kind |-> "error", message |-> ProviderMsg, data |-> Null]
Threw == [kind |-> "throw", message |-> TransportMsg, data |-> Null]

AccountsResponses == {Threw, ProviderError, Ok(Null), Ok(Some(<<Acc1, Acc2>>))}
AcctResponses == {Threw, ProviderError, Ok(Some(<<>>)), Ok(Some(<<RowA>>))}
CampResponses == {Threw, ProviderError, Ok(Null), Ok(Some(<<Camp1, Camp2>>))}
DailyResponses == {Threw, ProviderError, Ok(Null), Ok(Some(<<Day1, Day2>>))}
SelInsResponses == {Threw, ProviderError, Ok(Some(<<>>)), Ok(Some(<<RowC>>))}
SelDailyResponses == {Threw, ProviderError, Ok(Null), Ok(Some(<<Day2>>))}

\* ------------------------------------------------------------------- state

VARIABLES
  token,               \* useState: the credential ('' when none)
  accounts,            \* useState: AdAccount[]
  selectedAccount,     \* useState: AdAccount | null
  insights,            \* useState: displayed AccountInsights | null
  campaigns,           \* useState: CampaignInsight[]
  dailyData,           \* useState: displayed DailyData[]
  loading,             \* useState: boolean
  error,               \* useState: string | null
  accountInsights,     \* useState: baseline AccountInsights | null
  accountDailyData,    \* useState: baseline DailyData[]
  selectedCampaignId,  \* useState: string | null
  lastDateRange,       \* useState: DateRange | null
  calls,               \* the async callbacks suspended at an await, in issue order
  last,                \* the step just taken: the callback invoked or the call resumed
  everLoaded,          \* a fetchInsights call has returned without reaching its catch
  baselineFrom,        \* the fetchInsights call that wrote each baseline slot
  applied,             \* SpecPure only: a pure function, its arguments and its result
  ops                  \* callbacks invoked so far (counted by SpecOverlap only)

hook == <<token, accounts, selectedAccount, insights, campaigns, dailyData, loading,
          error, accountInsights, accountDailyData, selectedCampaignId, lastDateRange>>

vars == <<token, accounts, selectedAccount, insights, campaigns, dailyData, loading,
          error, accountInsights, accountDailyData, selectedCampaignId, lastDateRange,
          calls, last, everLoaded, baselineFrom, applied, ops>>

\* What the view showed and the hook cached when a callback was invoked.
Snapshot ==
  [accounts |-> accounts, selectedAccount |-> selectedAccount,
   insights |-> insights, campaigns |-> campaigns, dailyData |-> dailyData,
   accountInsights |-> accountInsights, accountDailyData |-> accountDailyData,
   selectedCampaignId |-> selectedCampaignId]

\* The selectCampaign call that returned in the step just taken, if one did:
\* its campaign, and whether that campaign was the selected one when it was invoked.
ReturnedSelect ==
  IF last.op = "selectCampaign" /\ last.done
  THEN Some([id |-> last.arg, wasSelected |-> last.sel = Some(last.arg)])
  ELSE IF last.op = "resume" /\ last.done /\ last.call[1].kind = "selectCampaign"
  THEN Some([id |-> last.call[1].campaignId[1],
             wasSelected |-> last.call[1].pre.selectedCampaignId = last.call[1].campaignId])
  ELSE Null

\* A suspended async callback: what it closed over, the request it awaits (pc),
\* the responses it has consumed, the state when it was invoked and, for a
\* selectCampaign, the selectCampaign call that returned just before it.
Call(kind, pc, tk, account, range, campaignId) ==
  [kind |-> kind, pc |-> pc, tk |-> tk, account |-> account, range |-> range,
   campaignId |-> campaignId, pre |-> Snapshot,
   after |-> IF kind = "selectCampaign" THEN ReturnedSelect ELSE Null,
   r1 |-> Null, r2 |-> Null, r3 |-> Null]

\* The record of a step: the callback invoked and its argument, or "resume" and
\* the call resumed; whether the callback has returned; the selection before the
\* step; for a selectCampaign, the selectCampaign call that returned just before.
Step(op, arg, call, done) ==
  [op |-> op, arg |-> arg, call |-> call, done |-> done, sel |-> selectedCampaignId,
   after |-> IF op = "selectCampaign" THEN ReturnedSelect ELSE Null]

\* The (account, dateRange) arguments a fetchInsights call closed over.
LoadOf(c) == [account |-> c.account[1], range |-> c.range[1]]

Remove(cs, i) == SubSeq(cs, 1, i - 1) \o SubSeq(cs, i + 1, Len(cs))

\* No pure function is under test in the specifications of the hook.
NotApplied == [fn |-> "none", args |-> Null, result |-> Null]

\* The state after construction: the credential comes from localStorage.
Init ==
  /\ token \in Tokens \cup {""}
  /\ accounts = <<>>
  /\ selectedAccount = Null
  /\ insights = Null
  /\ campaigns = <<>>
  /\ dailyData = <<>>
  /\ loading = FALSE
  /\ error = Null
  /\ accountInsights = Null
  /\ accountDailyData = <<>>
  /\ selectedCampaignId = Null
  /\ lastDateRange = Null
  /\ calls = <<>>
  /\ last = [op |-> "init", arg |-> Null, call |-> Null, done |-> FALSE, sel |-> Null,
             after |-> Null]
  /\ everLoaded = FALSE
  /\ baselineFrom = [insights |-> Null, daily |-> Null]
  /\ applied = NotApplied
  /\ ops = 0

\* A callback is invoked and returns without awaiting anything.
Sync(op, arg) ==
  /\ calls' = calls
  /\ last' = Step(op, arg, Null, TRUE)
  /\ everLoaded' = everLoaded

\* Mutant of Suspend: issuing a call abandons the calls still in flight.
Suspend_CancelsEarlier(op, arg, call) ==
  /\ Len(calls) < MaxInFlight
  /\ calls' = <<call>>
  /\ last' = Step(op, arg, Null, FALSE)
  /\ everLoaded' = everLoaded

\* A callback is invoked, issues a request and suspends at the await.
Suspend(op, arg, call) ==
  /\ Len(calls) < MaxInFlight
  /\ calls' = Append(calls, call)
  /\ last' = Step(op, arg, Null, FALSE)
  /\ everLoaded' = everLoaded

\* Call i resumes with a response, issues its next request and suspends again.
Continue(i, c) ==
  /\ calls' = [calls EXCEPT ![i] = c]
  /\ last' = Step("resume", Null, Some(c), FALSE)
  /\ everLoaded' = everLoaded

\* Call i resumes with a response and runs to its end; a fetchInsights call
\* whose per-day response did not throw has passed all three awaits.
Finish(i, c) ==
  /\ calls' = Remove(calls, i)
  /\ last' = Step("resume", Null, Some(c), TRUE)
  /\ everLoaded' = (everLoaded \/ (c.kind = "fetchInsights" /\ c.r3 # Null
                                                            /\ c.r3[1].kind # "throw"))

\* ----------------------------------------------------------- fetchAccounts

\* fetchAccounts up to its await: `tk = accessToken || token`, return when empty.
FetchAccountsStart(op, accessToken) ==
  LET tk == IF accessToken # "" THEN accessToken ELSE token
  IN  IF tk = ""
      THEN /\ UNCHANGED <<loading, error>>
           /\ Sync(op, accessToken)
      ELSE /\ loading' = TRUE
           /\ error' = Null
           /\ Suspend(op, accessToken, Call("fetchAccounts", "accounts", tk, Null, Null, Null))

\* fetchAccounts() with no argument (App's effect on mount, or any caller).
FetchAccounts ==
  /\ FetchAccountsStart("fetchAccounts", "")
  /\ UNCHANGED <<token, accounts, selectedAccount, insights, campaigns, dailyData,
                 accountInsights, accountDailyData, selectedCampaignId, lastDateRange, baselineFrom>>

\* ApiSetup.handleConnect: onClearError(); onSaveToken(t); await onFetchAccounts(t).
Connect(t) ==
  /\ token' = t
  /\ FetchAccountsStart("connect", t)
  /\ UNCHANGED <<accounts, selectedAccount, insights, campaigns, dailyData,
                 accountInsights, accountDailyData, selectedCampaignId, lastDateRange, baselineFrom>>

\* Mutant of FetchAccountsSettle: a failed discovery empties the account list.
FetchAccountsSettle_ClearsAccounts(i, r) ==
  /\ calls[i].kind = "fetchAccounts"
  /\ IF r.kind = "ok"
     THEN /\ accounts' = (IF r.data = Null THEN <<>> ELSE r.data[1])
          /\ error' = error
     ELSE /\ error' = Some(r.message)
          /\ accounts' = <<>>
  /\ loading' = FALSE
  /\ Finish(i, [calls[i] EXCEPT !.r1 = Some(r), !.pc = "done"])
  /\ UNCHANGED <<token, selectedAccount, insights, campaigns, dailyData,
                 accountInsights, accountDailyData, selectedCampaignId, lastDateRange,
                 baselineFrom>>

\* fetchAccounts after its await: the try body, the catch and the finally.
FetchAccountsSettle(i, r) ==
  /\ calls[i].kind = "fetchAccounts"
  /\ IF r.kind = "ok"
     THEN /\ accounts' = (IF r.data = Null THEN <<>> ELSE r.data[1])
          /\ error' = error
     ELSE /\ error' = Some(r.message)
          /\ accounts' = accounts
  /\ loading' = FALSE
  /\ Finish(i, [calls[i] EXCEPT !.r1 = Some(r), !.pc = "done"])
  /\ UNCHANGED <<token, selectedAccount, insights, campaigns, dailyData,
                 accountInsights, accountDailyData, selectedCampaignId, lastDateRange, baselineFrom>>

\* ----------------------------------------------------------- fetchInsights

\* Mutant of FetchInsightsStart: the `if (!token) return` guard is missing.
FetchInsightsStart_NoGuard(account, dateRange) ==
  /\ loading' = TRUE
  /\ error' = Null
  /\ selectedAccount' = Some(account)
  /\ selectedCampaignId' = Null
  /\ lastDateRange' = Some(dateRange)
  /\ Suspend("fetchInsights", <<account, dateRange>>,
             Call("fetchInsights", "account", token, Some(account), Some(dateRange), Null))
  /\ UNCHANGED <<token, accounts, insights, campaigns, dailyData,
                 accountInsights, accountDailyData, baselineFrom>>

\* fetchInsights up to its first await.
FetchInsightsStart(account, dateRange) ==
  IF token = ""
  THEN /\ UNCHANGED <<hook, baselineFrom>>
       /\ Sync("fetchInsights", <<account, dateRange>>)
  ELSE /\ loading' = TRUE
       /\ error' = Null
       /\ selectedAccount' = Some(account)
       /\ selectedCampaignId' = Null
       /\ lastDateRange' = Some(dateRange)
       /\ Suspend("fetchInsights", <<account, dateRange>>,
                  Call("fetchInsights", "account", token, Some(account), Some(dateRange), Null))
       /\ UNCHANGED <<token, accounts, insights, campaigns, dailyData,
                      accountInsights, accountDailyData, baselineFrom>>

\* Mutant of ParsedInsights: zero rows are normalised without the fallback, the
\* ratios being 0 / 0.
ParsedInsights_NoFallback(r) ==
  IF r.data # Null /\ Len(r.data[1]) > 0 THEN parseInsightsRow(r.data[1][1])
  ELSE [emptyInsights EXCEPT !.roas = NaN, !.costPerPurchase = NaN]

\* `parsed`: the first row normalised, or a copy of emptyInsights.
ParsedInsights(r) ==
  IF r.data # Null /\ Len(r.data[1]) > 0 THEN parseInsightsRow(r.data[1][1])
  ELSE emptyInsights

\* Mutant of CatchFinally: the finally block is missing.
CatchFinally_KeepsLoading(i, c, message) ==
  /\ error' = Some(message)
  /\ loading' = loading
  /\ Finish(i, c)

\* The catch and the finally of the three async callbacks.
CatchFinally(i, c, message) ==
  /\ error' = Some(message)
  /\ loading' = FALSE
  /\ Finish(i, c)

\* The account-level response arrives.
AccountTierSettle(i, r) ==
  /\ calls[i].kind = "fetchInsights"
  /\ calls[i].pc = "account"
  /\ LET c == [calls[i] EXCEPT !.r1 = Some(r)]
     IN  IF r.kind # "ok"
         THEN /\ CatchFinally(i, [c EXCEPT !.pc = "done"], r.message)
              /\ UNCHANGED <<insights, accountInsights, baselineFrom>>
         ELSE /\ insights' = Some(ParsedInsights(r))
              /\ accountInsights' = Some(ParsedInsights(r))
              /\ baselineFrom' = [baselineFrom EXCEPT !.insights = Some(LoadOf(c))]
              /\ Continue(i, [c EXCEPT !.pc = "campaigns"])
              /\ UNCHANGED <<loading, error>>
  /\ UNCHANGED <<token, accounts, selectedAccount, campaigns, dailyData,
                 accountDailyData, selectedCampaignId, lastDateRange>>

\* The campaign-level response arrives.
CampaignTierSettle(i, r) ==
  /\ calls[i].kind = "fetchInsights"
  /\ calls[i].pc = "campaigns"
  /\ LET c == [calls[i] EXCEPT !.r2 = Some(r)]
     IN  IF r.kind = "throw"
         THEN /\ CatchFinally(i, [c EXCEPT !.pc = "done"], r.message)
              /\ UNCHANGED campaigns
         ELSE /\ campaigns' = (IF r.kind = "error" THEN campaigns
                               ELSE IF r.data = Null THEN <<>> ELSE r.data[1])
              /\ Continue(i, [c EXCEPT !.pc = "daily"])
              /\ UNCHANGED <<loading, error>>
  /\ UNCHANGED <<token, accounts, selectedAccount, insights, dailyData,
                 accountInsights, accountDailyData, selectedCampaignId, lastDateRange, baselineFrom>>

\* `daily`: the rows parsed when there is no error and a data member, else [].
ParsedDaily(r) ==
  IF r.kind = "ok" /\ r.data # Null THEN parseDailyArray(r.data[1]) ELSE <<>>

\* The per-day response arrives.
DailyTierSettle(i, r) ==
  /\ calls[i].kind = "fetchInsights"
  /\ calls[i].pc = "daily"
  /\ LET c == [calls[i] EXCEPT !.r3 = Some(r), !.pc = "done"]
     IN  IF r.kind = "throw"
         THEN /\ CatchFinally(i, c, r.message)
              /\ UNCHANGED <<dailyData, accountDailyData, baselineFrom>>
         ELSE /\ dailyData' = ParsedDaily(r)
              /\ accountDailyData' = ParsedDaily(r)
              /\ baselineFrom' = [baselineFrom EXCEPT !.daily = Some(LoadOf(c))]
              /\ loading' = FALSE
              /\ error' = error
              /\ Finish(i, c)
  /\ UNCHANGED <<token, accounts, selectedAccount, insights, campaigns,
                 accountInsights, selectedCampaignId, lastDateRange>>

\* ---------------------------------------------------------- selectCampaign

\* Mutant of ToggleOff: setDailyData(accountDailyData) is forgotten.
ToggleOff_KeepsDaily ==
  /\ selectedCampaignId' = Null
  /\ insights' = accountInsights
  /\ UNCHANGED <<dailyData, loading, error>>

\* Mutant of ToggleOff: setInsights(accountInsights) is forgotten.
ToggleOff_KeepsInsights ==
  /\ selectedCampaignId' = Null
  /\ dailyData' = accountDailyData
  /\ UNCHANGED <<insights, loading, error>>

\* The toggle branch: clicking the selected campaign deselects it.
ToggleOff ==
  /\ selectedCampaignId' = Null
  /\ insights' = accountInsights
  /\ dailyData' = accountDailyData
  /\ UNCHANGED <<loading, error>>

\* selectCampaign up to its first await.
SelectCampaignStart(campaignId) ==
  /\ IF token = "" \/ lastDateRange = Null
     THEN /\ UNCHANGED <<selectedCampaignId, insights, dailyData, loading, error>>
          /\ Sync("selectCampaign", campaignId)
     ELSE IF Some(campaignId) = selectedCampaignId
     THEN /\ ToggleOff
          /\ Sync("selectCampaign", campaignId)
     ELSE /\ loading' = TRUE
          /\ error' = Null
          /\ selectedCampaignId' = Some(campaignId)
          /\ Suspend("selectCampaign", campaignId,
                     Call("selectCampaign", "insights", token, Null, lastDateRange,
                          Some(campaignId)))
          /\ UNCHANGED <<insights, dailyData>>
  /\ UNCHANGED <<token, accounts, selectedAccount, campaigns,
                 accountInsights, accountDailyData, lastDateRange, baselineFrom>>

\* Mutant of SelectInsightsSettle: the parsed row is not put on display.
SelectInsightsSettle_KeepsInsights(i, r) ==
  /\ calls[i].kind = "selectCampaign"
  /\ calls[i].pc = "insights"
  /\ LET c == [calls[i] EXCEPT !.r1 = Some(r)]
     IN  IF r.kind # "ok"
         THEN CatchFinally(i, [c EXCEPT !.pc = "done"], r.message)
         ELSE /\ Continue(i, [c EXCEPT !.pc = "daily"])
              /\ UNCHANGED <<loading, error>>
  /\ UNCHANGED <<token, accounts, selectedAccount, insights, campaigns, dailyData,
                 accountInsights, accountDailyData, selectedCampaignId, lastDateRange, baselineFrom>>

\* The campaign-scoped insights response arrives.
SelectInsightsSettle(i, r) ==
  /\ calls[i].kind = "selectCampaign"
  /\ calls[i].pc = "insights"
  /\ LET c == [calls[i] EXCEPT !.r1 = Some(r)]
     IN  IF r.kind # "ok"
         THEN /\ CatchFinally(i, [c EXCEPT !.pc = "done"], r.message)
              /\ UNCHANGED insights
         ELSE /\ insights' = Some(ParsedInsights(r))
              /\ Continue(i, [c EXCEPT !.pc = "daily"])
              /\ UNCHANGED <<loading, error>>
  /\ UNCHANGED <<token, accounts, selectedAccount, campaigns, dailyData,
                 accountInsights, accountDailyData, selectedCampaignId, lastDateRange, baselineFrom>>

\* Mutant of SelectDailySettle: the campaign's series is also cached as baseline.
SelectDailySettle_WritesBaseline(i, r) ==
  /\ calls[i].kind = "selectCampaign"
  /\ calls[i].pc = "daily"
  /\ LET c == [calls[i] EXCEPT !.r2 = Some(r), !.pc = "done"]
     IN  IF r.kind = "throw"
         THEN /\ CatchFinally(i, c, r.message)
              /\ UNCHANGED <<dailyData, accountDailyData>>
         ELSE /\ dailyData' = ParsedDaily(r)
              /\ accountDailyData' = ParsedDaily(r)
              /\ loading' = FALSE
              /\ error' = error
              /\ Finish(i, c)
  /\ UNCHANGED <<token, accounts, selectedAccount, insights, campaigns,
                 accountInsights, selectedCampaignId, lastDateRange, baselineFrom>>

\* The campaign-scoped per-day response arrives.
SelectDailySettle(i, r) ==
  /\ calls[i].kind = "selectCampaign"
  /\ calls[i].pc = "daily"
  /\ LET c == [calls[i] EXCEPT !.r2 = Some(r), !.pc = "done"]
     IN  IF r.kind = "throw"
         THEN /\ CatchFinally(i, c, r.message)
              /\ UNCHANGED dailyData
         ELSE /\ dailyData' = ParsedDaily(r)
              /\ loading' = FALSE
              /\ error' = error
              /\ Finish(i, c)
  /\ UNCHANGED <<token, accounts, selectedAccount, insights, campaigns,
                 accountInsights, accountDailyData, selectedCampaignId, lastDateRange, baselineFrom>>

\* ------------------------------ clearCampaignSelection, disconnect, setError

\* Mutant of ClearCampaignSelection: only the selection is cleared.
ClearCampaignSelection_KeepsDisplayed ==
  /\ selectedCampaignId' = Null
  /\ Sync("clearCampaignSelection", Null)
  /\ UNCHANGED <<token, accounts, selectedAccount, insights, campaigns, dailyData,
                 loading, error, accountInsights, accountDailyData, lastDateRange, baselineFrom>>

ClearCampaignSelection ==
  /\ selectedCampaignId' = Null
  /\ insights' = accountInsights
  /\ dailyData' = accountDailyData
  /\ Sync("clearCampaignSelection", Null)
  /\ UNCHANGED <<token, accounts, selectedAccount, campaigns, loading, error,
                 accountInsights, accountDailyData, lastDateRange, baselineFrom>>

Disconnect ==
  /\ token' = ""
  /\ accounts' = <<>>
  /\ selectedAccount' = Null
  /\ insights' = Null
  /\ campaigns' = <<>>
  /\ dailyData' = <<>>
  /\ accountInsights' = Null
  /\ accountDailyData' = <<>>
  /\ selectedCampaignId' = Null
  /\ lastDateRange' = Null
  /\ baselineFrom' = [insights |-> Null, daily |-> Null]
  /\ Sync("disconnect", Null)
  /\ UNCHANGED <<loading, error>>

\* The exported setError, called by the view as setError(null).
ClearError ==
  /\ error' = Null
  /\ Sync("setError", Null)
  /\ UNCHANGED <<token, accounts, selectedAccount, insights, campaigns, dailyData,
                 loading, accountInsights, accountDailyData, selectedCampaignId,
                 lastDateRange, baselineFrom>>

\* ------------------------------------------------------------ specification

\* The caller serialises: a callback is invoked only when no call is in flight
\* (the discipline section 5 of the specification asks of the caller).  Any
\* number of callbacks may be invoked.
Serial == (calls = <<>> \/ last'.op = "resume") /\ ops' = ops /\ applied' = applied

Next ==
  \/ FetchAccounts /\ Serial
  \/ (\E t \in Tokens : Connect(t)) /\ Serial
  \/ (\E i \in DOMAIN calls : \E r \in AccountsResponses : FetchAccountsSettle(i, r)) /\ Serial
  \/ (\E a \in LoadArgs : FetchInsightsStart(a[1], a[2])) /\ Serial
  \/ (\E i \in DOMAIN calls : \E r \in AcctResponses : AccountTierSettle(i, r)) /\ Serial
  \/ (\E i \in DOMAIN calls : \E r \in CampResponses : CampaignTierSettle(i, r)) /\ Serial
  \/ (\E i \in DOMAIN calls : \E r \in DailyResponses : DailyTierSettle(i, r)) /\ Serial
  \/ (\E id \in CampaignIds : SelectCampaignStart(id)) /\ Serial
  \/ (\E i \in DOMAIN calls : \E r \in SelInsResponses : SelectInsightsSettle(i, r)) /\ Serial
  \/ (\E i \in DOMAIN calls : \E r \in SelDailyResponses : SelectDailySettle(i, r)) /\ Serial
  \/ ClearCampaignSelection /\ Serial
  \/ Disconnect /\ Serial
  \/ ClearError /\ Serial

Spec == Init /\ [][Next]_vars

\* A pending request settles (fetch resolves or rejects) and its call resumes.
Settle ==
  /\ \E i \in DOMAIN calls :
        \/ \E r \in AccountsResponses : FetchAccountsSettle(i, r)
        \/ \E r \in AcctResponses : AccountTierSettle(i, r)
        \/ \E r \in CampResponses : CampaignTierSettle(i, r)
        \/ \E r \in DailyResponses : DailyTierSettle(i, r)
        \/ \E r \in SelInsResponses : SelectInsightsSettle(i, r)
        \/ \E r \in SelDailyResponses : SelectDailySettle(i, r)
  /\ Serial

\* Spec, with every issued request eventually settling.
SpecLive == Spec /\ WF_vars(Settle)

\* Callbacks may be invoked while earlier calls are in flight (at most
\* MaxInFlight of them); at most MaxOps callbacks are invoked in a behaviour.
Counted ==
  /\ IF last'.op = "resume" THEN ops' = ops
     ELSE ops < MaxOps /\ ops' = ops + 1
  /\ applied' = applied

NextOverlap ==
  \/ FetchAccounts /\ Counted
  \/ (\E t \in Tokens : Connect(t)) /\ Counted
  \/ (\E i \in DOMAIN calls : \E r \in AccountsResponses : FetchAccountsSettle(i, r)) /\ Counted
  \/ (\E a \in LoadArgs : FetchInsightsStart(a[1], a[2])) /\ Counted
  \/ (\E i \in DOMAIN calls : \E r \in AcctResponses : AccountTierSettle(i, r)) /\ Counted
  \/ (\E i \in DOMAIN calls : \E r \in CampResponses : CampaignTierSettle(i, r)) /\ Counted
  \/ (\E i \in DOMAIN calls : \E r \in DailyResponses : DailyTierSettle(i, r)) /\ Counted
  \/ (\E id \in CampaignIds : SelectCampaignStart(id)) /\ Counted
  \/ (\E i \in DOMAIN calls : \E r \in SelInsResponses : SelectInsightsSettle(i, r)) /\ Counted
  \/ (\E i \in DOMAIN calls : \E r \in SelDailyResponses : SelectDailySettle(i, r)) /\ Counted
  \/ ClearCampaignSelection /\ Counted
  \/ Disconnect /\ Counted
  \/ ClearError /\ Counted

SpecOverlap == Init /\ [][NextOverlap]_vars

\* ------------------------------------- the pure functions, applied to inputs

\* All lists over S of at most n elements.
ListsUpTo(S, n) == UNION {[1..k -> S] : k \in 0..n}

\* Value strings of action records: an integer, a decimal, and two that are
\* not numeric.
ValueStrings == {<<"2">>, <<"1", ".", "5">>, <<"a">>, <<>>}

\* `actions` / `action_values` as handed to parseActions: undefined, or a list.
LookupLabels == {"purchase", "lead"}
LookupRecords == {ActionRec(t, v) : t \in LookupLabels, v \in ValueStrings}
LookupInputs ==
  {<<a, t>> : a \in {Null} \cup {Some(l) : l \in ListsUpTo(LookupRecords, MaxRecords)},
              t \in LookupLabels}

\* `c.actions` as handed to parseActionsByCandidates with messagingActionTypes.
CandidateRecords ==
  {ActionRec(t, v) : t \in {messagingActionTypes[i] : i \in 1..3} \cup {"purchase"},
                     v \in {<<"2">>, <<"7">>}}
CandidateInputs ==
  {<<a, messagingActionTypes>> :
     a \in {Null} \cup {Some(l) : l \in ListsUpTo(CandidateRecords, MaxRecords)}}

\* Rows as the reporting endpoint returns them for an account or a campaign:
\* spend absent, zero, positive or not numeric; purchases and purchase values
\* absent, present or not numeric; with or without a lead record.
RowInputs ==
  {[campaign_id |-> "c1", campaign_name |-> "one",
    spend |-> sp, impressions |-> <<"9">>, reach |-> <<>>, clicks |-> <<"3">>,
    cpc |-> <<>>, cpm |-> <<"1", ".", "5">>, ctr |-> <<>>,
    actions |-> ac, action_values |-> av] :
     sp \in {<<>>, <<"0">>, <<"4">>, <<"2", ".", "5">>, <<"a">>},
     ac \in {Null} \cup {Some(l) : l \in ListsUpTo({ActionRec("purchase", <<"2">>),
                                                    ActionRec("purchase", <<"a">>),
                                                    ActionRec("lead", <<"1">>)}, MaxRecords)},
     av \in {Null, Some(<<ActionRec("purchase", <<"6">>)>>),
             Some(<<ActionRec("purchase", <<"a">>)>>),
             Some(<<ActionRec("lead", <<"3">>)>>)}}

\* A function and its arguments, not yet applied.
Pending(fn, args) == [fn |-> fn, args |-> args, result |-> Null]

\* The hook is idle in its initial state; one function and its arguments are
\* drawn.
InitPure ==
  /\ token = ""
  /\ accounts = <<>>
  /\ selectedAccount = Null
  /\ insights = Null
  /\ campaigns = <<>>
  /\ dailyData = <<>>
  /\ loading = FALSE
  /\ error = Null
  /\ accountInsights = Null
  /\ accountDailyData = <<>>
  /\ selectedCampaignId = Null
  /\ lastDateRange = Null
  /\ calls = <<>>
  /\ last = [op |-> "init", arg |-> Null, call |-> Null, done |-> FALSE, sel |-> Null,
             after |-> Null]
  /\ everLoaded = FALSE
  /\ baselineFrom = [insights |-> Null, daily |-> Null]
  /\ ops = 0
  /\ \/ \E a \in LookupInputs : applied = Pending("parseActions", a)
     \/ \E a \in CandidateInputs : applied = Pending("parseActionsByCandidates", a)
     \/ \E d \in RowInputs : applied = Pending("parseInsightsRow", d)
     \/ \E c \in RowInputs : applied = Pending("CampaignRowRoas", c)

\* The function drawn is applied to its arguments.
Apply(fn, result) ==
  /\ applied.fn = fn
  /\ applied.result = Null
  /\ applied' = [applied EXCEPT !.result = Some(result)]
  /\ UNCHANGED <<hook, calls, last, everLoaded, baselineFrom, ops>>

ApplyParseActions ==
  Apply("parseActions", parseActions(applied.args[1], applied.args[2]))

ApplyParseActionsByCandidates ==
  Apply("parseActionsByCandidates", parseActionsByCandidates(applied.args[1], applied.args[2]))

ApplyParseInsightsRow ==
  Apply("parseInsightsRow", parseInsightsRow(applied.args))

ApplyCampaignRowRoas ==
  Apply("CampaignRowRoas", CampaignRowRoas(applied.args))

NextPure ==
  \/ ApplyParseActions
  \/ ApplyParseActionsByCandidates
  \/ ApplyParseInsightsRow
  \/ ApplyCampaignRowRoas

SpecPure == InitPure /\ [][NextPure]_vars

\* ------------------------------------------------------------------ claims

\* The call that returned in the step just taken, when that step resumed one.
Resolved(kind) ==
  /\ last.op = "resume"
  /\ last.done
  /\ last.call[1].kind = kind

TheCall == last.call[1]

\* What one fetchInsights call fetched: its tiers normalised, a tier that failed
\* or was never queried being the empty array.
TierOk(r) == r # Null /\ r[1].kind = "ok"
TierFailed(r) == r # Null /\ r[1].kind # "ok"
InsightsOf(r) ==
  IF r[1].data # Null /\ r[1].data[1] # <<>> THEN parseInsightsRow(Head(r[1].data[1]))
  ELSE emptyInsights
RowsOf(r) == IF TierOk(r) /\ r[1].data # Null THEN r[1].data[1] ELSE <<>>
DailyOf(r) == parseDailyArray(RowsOf(r))

\* C1 (as claimed): when the account-tier query of fetchInsights (loadAccount)
\* fails, then once the call has returned, the selected account, the selected
\* campaign, the displayed insights and daily series, the campaign list and the
\* baseline all have the values they had just before the call.
C1_FailedLoadLeavesStateUntouched ==
  (Resolved("fetchInsights") /\ TierFailed(TheCall.r1)) =>
     /\ selectedAccount = TheCall.pre.selectedAccount
     /\ selectedCampaignId = TheCall.pre.selectedCampaignId
     /\ insights = TheCall.pre.insights
     /\ dailyData = TheCall.pre.dailyData
     /\ campaigns = TheCall.pre.campaigns
     /\ accountInsights = TheCall.pre.accountInsights
     /\ accountDailyData = TheCall.pre.accountDailyData

\* C2 (as claimed, for a per-day query that does not throw): when the account
\* tier succeeds and the campaign tier answers with a provider error, the call
\* returns with the campaign list empty, the new insights and daily series
\* applied and no error surfaced.
C2_CampaignErrorGivesEmptyList ==
  (/\ Resolved("fetchInsights")
   /\ TierOk(TheCall.r1)
   /\ TheCall.r2 # Null /\ TheCall.r2[1].kind = "error"
   /\ TheCall.r3 # Null /\ TheCall.r3[1].kind # "throw") =>
     /\ campaigns = <<>>
     /\ insights = Some(InsightsOf(TheCall.r1))
     /\ dailyData = DailyOf(TheCall.r3)
     /\ error = Null

\* C3 (as claimed): whenever the account tier of fetchInsights succeeds, the
\* error is null once the call has returned and the per-day tier was queried,
\* whatever the campaign and per-day queries did.
C3_LaterTiersNeverSurfaceOrAbort ==
  (Resolved("fetchInsights") /\ TierOk(TheCall.r1)) =>
     /\ error = Null
     /\ TheCall.r3 # Null

\* C4 (as claimed): while a fetchInsights call still awaits one of its three
\* queries, the displayed insights, the daily series, the campaign list and the
\* baseline are those of before the call, and loading is still set.
C4_NothingAppliedBeforeAllSettled ==
  \A i \in DOMAIN calls :
    calls[i].kind = "fetchInsights" =>
      /\ insights = calls[i].pre.insights
      /\ dailyData = calls[i].pre.dailyData
      /\ campaigns = calls[i].pre.campaigns
      /\ accountInsights = calls[i].pre.accountInsights
      /\ accountDailyData = calls[i].pre.accountDailyData
      /\ loading

\* C5 (as claimed): after a fetchInsights call whose account tier succeeded has
\* returned, with no other call overlapping it, the baseline is this load's
\* insights and daily series, the displayed values equal the baseline and no
\* campaign is selected.
C5_SuccessfulLoadReplacesBaseline ==
  (Resolved("fetchInsights") /\ TierOk(TheCall.r1)) =>
     /\ accountInsights = Some(InsightsOf(TheCall.r1))
     /\ accountDailyData = DailyOf(TheCall.r3)
     /\ insights = accountInsights
     /\ dailyData = accountDailyData
     /\ selectedCampaignId = Null

\* C6: a selectCampaign(id) call issued while id is not the selected campaign
\* (nothing or another campaign is selected), whose two campaign-scoped queries
\* both succeed, returns with id selected, the displayed insights and daily
\* series being the campaign-scoped results, and the campaign list as before.
C6_SelectShowsCampaign ==
  (/\ Resolved("selectCampaign")
   /\ TheCall.pre.selectedCampaignId # TheCall.campaignId
   /\ TierOk(TheCall.r1) /\ TierOk(TheCall.r2)) =>
     /\ selectedCampaignId = TheCall.campaignId
     /\ insights = Some(InsightsOf(TheCall.r1))
     /\ dailyData = DailyOf(TheCall.r2)
     /\ campaigns = TheCall.pre.campaigns

\* C6 witness: such a call has returned, issued while the other campaign was
\* selected, with a row and a day to display and a non-empty campaign list.
C6_Witness ==
  /\ Resolved("selectCampaign")
  /\ TheCall.pre.selectedCampaignId # Null
  /\ TheCall.pre.selectedCampaignId # TheCall.campaignId
  /\ TierOk(TheCall.r1) /\ TierOk(TheCall.r2)
  /\ InsightsOf(TheCall.r1) # emptyInsights
  /\ DailyOf(TheCall.r2) # <<>>
  /\ campaigns # <<>>

\* C7 (as claimed, for the states reached after a successful load): when a query
\* of selectCampaign(id) fails, then once the call has returned the baseline is
\* unchanged, the error is set, the slot of each failed tier holds the empty
\* value and the slot of each tier that succeeded holds that tier's
\* campaign-scoped result.
C7_FailedSelectFallsBackToEmpty ==
  (/\ everLoaded
   /\ Resolved("selectCampaign")
   /\ TierFailed(TheCall.r1) \/ TierFailed(TheCall.r2)) =>
     /\ accountInsights = TheCall.pre.accountInsights
     /\ accountDailyData = TheCall.pre.accountDailyData
     /\ error # Null
     /\ TierFailed(TheCall.r1) => insights = Some(emptyInsights)
     /\ TierOk(TheCall.r1) => insights = Some(InsightsOf(TheCall.r1))
     /\ TierFailed(TheCall.r2) => dailyData = <<>>
     /\ TierOk(TheCall.r2) => dailyData = DailyOf(TheCall.r2)

\* C8: a selectCampaign(id) step taken while id is the selected campaign clears
\* the selection, sets the displayed insights and daily series to the baseline
\* values cached before the step, and issues no request.
C8_ToggleRestoresBaseline ==
  [][(last'.op = "selectCampaign" /\ selectedCampaignId = Some(last'.arg)) =>
       /\ selectedCampaignId' = Null
       /\ insights' = accountInsights
       /\ dailyData' = accountDailyData
       /\ calls' = calls]_vars

\* C8 witness: the selected campaign has just been clicked again, with a
\* baseline to restore.
C8_Witness ==
  /\ last.op = "selectCampaign"
  /\ last.sel = Some(last.arg)
  /\ accountInsights # Null
  /\ accountDailyData # <<>>
  /\ insights = accountInsights

\* C9: a clearCampaignSelection step, in any state, clears the selection, sets
\* the displayed insights and daily series to the baseline values cached before
\* the step, and issues no request.
C9_ClearRestoresBaseline ==
  [][last'.op = "clearCampaignSelection" =>
       /\ selectedCampaignId' = Null
       /\ insights' = accountInsights
       /\ dailyData' = accountDailyData
       /\ calls' = calls]_vars

\* C9 witness: clearCampaignSelection has just run with a campaign selected and
\* a baseline to restore.
C9_Witness ==
  /\ last.op = "clearCampaignSelection"
  /\ last.sel # Null
  /\ accountInsights # Null
  /\ accountDailyData # <<>>
  /\ insights = accountInsights

\* The second of two consecutive selectCampaign(X) calls (the first had returned,
\* no step between) has returned in the step just taken: <<what the first was>>.
SecondSelectReturned ==
  IF last.op = "selectCampaign" /\ last.done
       /\ last.after # Null /\ last.after[1].id = last.arg
  THEN last.after
  ELSE IF Resolved("selectCampaign")
       /\ TheCall.after # Null /\ Some(TheCall.after[1].id) = TheCall.campaignId
  THEN TheCall.after
  ELSE Null

C11_SelectBeforeLoadIsNoOp ==
  [][(last'.op = "selectCampaign" /\ accountInsights = Null) =>
       /\ hook' = hook
       /\ calls' = calls]_vars

\* C12 (as claimed): right after disconnect() the credential, the lists, the
\* displayed and baseline slots, the selection and the error all have their
\* initial values.
C12_DisconnectResetsToInitial ==
  (last.op = "disconnect") =>
     /\ token = ""
     /\ accounts = <<>>
     /\ selectedAccount = Null
     /\ insights = Null
     /\ dailyData = <<>>
     /\ campaigns = <<>>
     /\ accountInsights = Null
     /\ accountDailyData = <<>>
     /\ selectedCampaignId = Null
     /\ error = Null

\* C13: the step in which a fetchAccounts, fetchInsights or selectCampaign call
\* returns, on its success path or through its catch, leaves loading false; and,
\* every issued request eventually settling, loading never stays true forever.
C13_LoadingAlwaysCleared ==
  /\ [](\A k \in {"fetchAccounts", "fetchInsights", "selectCampaign"} :
          Resolved(k) => loading = FALSE)
  /\ (loading = TRUE) ~> (loading = FALSE)

\* C13 witness: a call that had set loading returned through its catch after a
\* later tier threw, and loading is false.
C13_Witness ==
  /\ Resolved("fetchInsights")
  /\ TierOk(TheCall.r1)
  /\ TheCall.r2 # Null /\ TheCall.r2[1].kind = "throw"
  /\ loading = FALSE

\* A step cancels no call: invoking a callback leaves every call in flight as it
\* was, and resuming a call changes that call only, which stays in flight until
\* it has returned.
NotCancelled ==
  IF last'.op # "resume"
  THEN \A i \in DOMAIN calls : i \in DOMAIN calls' /\ calls'[i] = calls[i]
  ELSE \E i \in DOMAIN calls :
         IF last'.done THEN calls' = Remove(calls, i)
         ELSE calls' = [calls EXCEPT ![i] = last'.call[1]]

\* The update a resumed call applies lands whatever else is in flight: right
\* after the step the slot holds the value computed from that call's response.
LastWriteWins ==
  (last.op = "resume") =>
    LET c == last.call[1]
    IN  /\ (c.kind = "fetchAccounts" /\ TierOk(c.r1)) => accounts = RowsOf(c.r1)
        /\ (c.kind = "fetchInsights" /\ c.pc = "campaigns") =>
              /\ insights = Some(InsightsOf(c.r1))
              /\ accountInsights = Some(InsightsOf(c.r1))
        /\ (c.kind = "fetchInsights" /\ c.pc = "daily" /\ TierOk(c.r2)) =>
              campaigns = RowsOf(c.r2)
        /\ (c.kind = "fetchInsights" /\ c.r3 # Null /\ c.r3[1].kind # "throw") =>
              /\ dailyData = DailyOf(c.r3)
              /\ accountDailyData = DailyOf(c.r3)
        /\ (c.kind = "selectCampaign" /\ c.pc = "daily") =>
              insights = Some(InsightsOf(c.r1))
        /\ (c.kind = "selectCampaign" /\ c.r2 # Null /\ c.r2[1].kind # "throw") =>
              dailyData = DailyOf(c.r2)

\* C14: a call issued while another is in flight cancels nothing, every call
\* runs its remaining queries and applies its updates, and each slot holds what
\* the update applied last wrote, be it the update of the call issued earlier.
C14_OverlappingCallsLastWriteWins ==
  /\ []LastWriteWins
  /\ [][NotCancelled]_vars

\* C14 witness: selectCampaign was issued while a fetchInsights call was in
\* flight and returned first; the load returned last, so the daily series on
\* display is the load's while the insights on display are the campaign's.
C14_Witness ==
  /\ Resolved("fetchInsights")
  /\ calls = <<>>
  /\ selectedCampaignId # Null
  /\ TierOk(TheCall.r3)
  /\ dailyData = DailyOf(TheCall.r3)
  /\ dailyData # <<>>
  /\ insights = Some(parseInsightsRow(RowC))
  /\ insights # accountInsights

\* C15: every step of selectCampaign (its toggle, its start, its resumptions,
\* successful or failed), of clearCampaignSelection and of fetchAccounts (called
\* by the view on mount or on connect) leaves the baseline insights and the
\* baseline daily series unchanged.
C15_BaselineWrittenOnlyByLoad ==
  [][(\/ last'.op \in {"selectCampaign", "clearCampaignSelection", "connect",
                       "fetchAccounts"}
      \/ /\ last'.op = "resume"
         /\ last'.call[1].kind \in {"selectCampaign", "fetchAccounts"}) =>
       /\ accountInsights' = accountInsights
       /\ accountDailyData' = accountDailyData]_vars

\* C15 witness: a selectCampaign call has returned with the campaign's insights
\* and daily series on display, both different from an existing baseline.
C15_Witness ==
  /\ Resolved("selectCampaign")
  /\ TierOk(TheCall.r1) /\ TierOk(TheCall.r2)
  /\ accountInsights # Null
  /\ accountDailyData # <<>>
  /\ insights # accountInsights
  /\ dailyData # accountDailyData
  /\ dailyData # <<>>

\* The selectCampaign call that issued a campaign-scoped query in the step just
\* taken (its insights query when invoked, its per-day query when resumed).
SelectIssuing ==
  IF last.op = "selectCampaign" /\ ~last.done THEN Some(calls[Len(calls)])
  ELSE IF last.op = "resume" /\ ~last.done /\ last.call[1].kind = "selectCampaign"
  THEN last.call
  ELSE Null

\* C16 (as claimed): whenever selectCampaign issues a campaign-scoped query while
\* a baseline exists whose insights and daily series one fetchInsights call
\* produced, the date range it sends is the date range of that call.
C16_SelectSendsBaselineRange ==
  (/\ SelectIssuing # Null
   /\ baselineFrom.insights # Null
   /\ baselineFrom.daily = baselineFrom.insights) =>
     SelectIssuing[1].range = Some(baselineFrom.insights[1].range)

\* C17 (as claimed): a fetchAccounts, fetchInsights or selectCampaign call that
\* returns at its guard because the credential is empty leaves the error set;
\* a fetchAccounts or fetchInsights call whose first query failed leaves the
\* error set to that failure's message.
C17_AbortSurfacesError ==
  /\ (/\ last.op \in {"fetchAccounts", "fetchInsights", "selectCampaign"}
      /\ last.done
      /\ token = "") => error # Null
  /\ \A k \in {"fetchAccounts", "fetchInsights"} :
       (Resolved(k) /\ TierFailed(TheCall.r1)) => error = Some(TheCall.r1[1].message)

\* C18: while the credential is empty, a step of fetchAccounts() (no explicit
\* token), of fetchInsights or of selectCampaign returns at once: it issues no
\* request and leaves loading as it was.
C18_EmptyCredentialShortCircuits ==
  [][(token = "" /\ last'.op \in {"fetchAccounts", "fetchInsights", "selectCampaign"}) =>
       /\ last'.done
       /\ calls' = calls
       /\ loading' = loading]_vars

\* C18 witness: fetchInsights has just returned at its guard, the credential
\* having been cleared by disconnect after an earlier failure.
C18_Witness ==
  /\ last.op = "fetchInsights"
  /\ last.done
  /\ token = ""
  /\ calls = <<>>
  /\ loading = FALSE
  /\ error # Null

\* C19: when the query of fetchAccounts fails (provider error or rejection),
\* the call returns with the error set to the failure's message and with the
\* account list, the selected account, the displayed insights and daily series,
\* the campaign list, the baseline and the selection as they were when it was
\* invoked.
C19_DiscoveryFailureKeepsState ==
  (Resolved("fetchAccounts") /\ TierFailed(TheCall.r1)) =>
     /\ error = Some(TheCall.r1[1].message)
     /\ Snapshot = TheCall.pre

\* C19 witness: a discovery has failed with accounts listed, a baseline loaded
\* and a campaign selected.
C19_Witness ==
  /\ Resolved("fetchAccounts")
  /\ TierFailed(TheCall.r1)
  /\ accounts # <<>>
  /\ accountInsights # Null
  /\ campaigns # <<>>
  /\ selectedCampaignId # Null

\* C20: emptyInsights has every field equal to 0; when the account-level query of
\* fetchInsights succeeds with zero rows the displayed and the baseline insights
\* are emptyInsights, not null, from the step that applies the response to the
\* return of the call; likewise the displayed insights when the insights query
\* of selectCampaign succeeds with zero rows.
C20_ZeroRowsGiveEmptyInsights ==
  /\ \A f \in DOMAIN emptyInsights : emptyInsights[f] = Zero
  /\ (/\ last.op = "resume"
      /\ last.call[1].kind \in {"fetchInsights", "selectCampaign"}
      /\ TierOk(last.call[1].r1)
      /\ RowsOf(last.call[1].r1) = <<>>) =>
        /\ insights = Some(emptyInsights)
        /\ (last.call[1].kind = "fetchInsights") => accountInsights = Some(emptyInsights)

\* C20 witness: a load whose account-level query had zero rows has returned,
\* replacing insights that were not empty.
C20_Witness ==
  /\ Resolved("fetchInsights")
  /\ TierOk(TheCall.r1)
  /\ RowsOf(TheCall.r1) = <<>>
  /\ TheCall.pre.insights # Null
  /\ TheCall.pre.insights # Some(emptyInsights)
  /\ insights = Some(emptyInsights)

\* The insights snapshots of a state: the displayed one, the baseline one and
\* the one parseInsightsRow has just produced.
InsightsSnapshots ==
  {x[1] : x \in {insights, accountInsights} \ {Null}}
    \cup (IF applied.fn = "parseInsightsRow" /\ applied.result # Null
          THEN {applied.result[1]} ELSE {})

\* C21: every insights snapshot has roas = purchaseValue / spend when spend > 0
\* and 0 otherwise, costPerPurchase = spend / purchases when purchases > 0 and 0
\* otherwise; with spend = 0 both ratios are 0 whatever the purchases are.
C21_RatiosFollowGuards ==
  \A x \in InsightsSnapshots :
     /\ x.roas = (IF Gt0(x.spend) THEN Div(x.purchaseValue, x.spend) ELSE Zero)
     /\ x.costPerPurchase = (IF Gt0(x.purchases) THEN Div(x.spend, x.purchases) ELSE Zero)
     /\ (x.spend = Zero) => (x.roas = Zero /\ x.costPerPurchase = Zero)

\* C21 witness: a row with spend 0 but purchases and a purchase value has been
\* normalised.
C21_Witness ==
  /\ applied.fn = "parseInsightsRow"
  /\ applied.result # Null
  /\ applied.result[1].spend = Zero
  /\ Gt0(applied.result[1].purchases)
  /\ Gt0(applied.result[1].purchaseValue)

\* C22: for every campaign row, the ROAS the campaign table computes equals the
\* roas parseInsightsRow computes from the same spend, actions and
\* action_values.
C22_CampaignRoasMatchesNormalizer ==
  (applied.fn = "CampaignRowRoas" /\ applied.result # Null) =>
     applied.result[1] = parseInsightsRow(applied.args).roas

\* C22 witness: the table has computed a positive ROAS for a campaign row.
C22_Witness ==
  /\ applied.fn = "CampaignRowRoas"
  /\ applied.result # Null
  /\ Gt0(applied.result[1])

\* The numbers the numeric value strings denote.
NumericValue(v) ==
  CASE v = <<"2">> -> Num(2, 1)
    [] v = <<"7">> -> Num(7, 1)
    [] v = <<"1", ".", "5">> -> Num(3, 2)

IsNumeric(v) == v \in {<<"2">>, <<"7">>, <<"1", ".", "5">>}

\* The positions of the records of an optional list whose type is t.
Matches(a, t) ==
  IF a = Null THEN {} ELSE {i \in DOMAIN a[1] : a[1][i].action_type = t}

\* The least element of a non-empty set of positions.
Least(idx) == CHOOSE i \in idx : \A j \in idx : i <= j

\* C23: parseActions(records, label) is 0 when records is absent, empty or has
\* no record of type label; otherwise, the value of the first such record being
\* numeric, it is the number that value denotes, also when later records have
\* the same type.
C23_LookupReturnsFirstMatch ==
  (applied.fn = "parseActions" /\ applied.result # Null) =>
    LET a == applied.args[1]
        idx == Matches(a, applied.args[2])
    IN  IF idx = {} THEN applied.result[1] = Zero
        ELSE IsNumeric(a[1][Least(idx)].value) =>
               applied.result[1] = NumericValue(a[1][Least(idx)].value)

\* C23 witness: two records of the type looked up, with different values, and
\* the first one's value returned.
C23_Witness ==
  /\ applied.fn = "parseActions"
  /\ applied.result # Null
  /\ applied.args[1] = Some(<<ActionRec("purchase", <<"2">>),
                              ActionRec("purchase", <<"1", ".", "5">>)>>)
  /\ applied.args[2] = "purchase"
  /\ applied.result[1] = Num(2, 1)

\* C24 (as claimed): parseActions never returns NaN, and returns 0 when the value
\* of the first matching record is not a numeric string; every metric that
\* parseInsightsRow derives from action records is a number.
C24_MalformedValueGivesZero ==
  /\ (applied.fn = "parseActions" /\ applied.result # Null) =>
       LET a == applied.args[1]
           idx == Matches(a, applied.args[2])
       IN  /\ ~IsNaN(applied.result[1])
           /\ (idx # {} /\ ~IsNumeric(a[1][Least(idx)].value)) => applied.result[1] = Zero
  /\ (applied.fn = "parseInsightsRow" /\ applied.result # Null) =>
       \A f \in {"purchases", "purchaseValue", "leads", "addToCart", "roas",
                  "costPerPurchase"} : ~IsNaN(applied.result[1][f])

\* C25: parseActionsByCandidates(records, candidates) is 0 when records is absent
\* or holds no record of a candidate type; otherwise it is the value of the
\* first record of the earliest candidate type, in candidate order, that occurs
\* in records, wherever that record stands in the list.
C25_LookupAnyFollowsCandidateOrder ==
  (applied.fn = "parseActionsByCandidates" /\ applied.result # Null) =>
    LET a == applied.args[1]
        candidates == applied.args[2]
        occurring == {k \in DOMAIN candidates : Matches(a, candidates[k]) # {}}
    IN  IF occurring = {} THEN applied.result[1] = Zero
        ELSE applied.result[1] =
               NumericValue(a[1][Least(Matches(a, candidates[Least(occurring)]))].value)

\* C25 witness: the record of the third candidate precedes the record of the
\* first candidate, whose value is returned.
C25_Witness ==
  /\ applied.fn = "parseActionsByCandidates"
  /\ applied.result # Null
  /\ applied.args[1] = Some(<<ActionRec(messagingActionTypes[3], <<"2">>),
                              ActionRec(messagingActionTypes[1], <<"7">>)>>)
  /\ applied.result[1] = Num(7, 1)

\* C26 (as claimed, for the states reached after a successful load): whenever no
\* call is in flight, no campaign is selected and a baseline exists, the
\* displayed insights and daily series are the baseline's.
C26_UnselectedShowsBaseline ==
  (everLoaded /\ calls = <<>> /\ selectedCampaignId = Null /\ accountInsights # Null) =>
     /\ insights = accountInsights
     /\ dailyData = accountDailyData

\* C27 (as claimed): a selectCampaign(id) call one of whose queries failed
\* returns with the selection as it was when the call was invoked.
C27_FailedSelectKeepsSelection ==
  (/\ Resolved("selectCampaign")
   /\ TierFailed(TheCall.r1) \/ TierFailed(TheCall.r2)) =>
     selectedCampaignId = TheCall.pre.selectedCampaignId

\* C28 (as claimed): loading is true in every state in which a call awaits a
\* request, also when another call that overlapped it has already returned.
C28_LoadingWhileInFlight ==
  (calls # <<>>) => loading = TRUE

\* C29 (as claimed): when the step that follows disconnect() is the settling of
\* a request that was in flight, the account list, the displayed insights and
\* daily series, the campaign list and the baseline keep their initial values.
C29_DisconnectOutlivesInFlight ==
  [][(last.op = "disconnect" /\ last'.op = "resume") =>
       /\ accounts' = <<>>
       /\ insights' = Null
       /\ dailyData' = <<>>
       /\ campaigns' = <<>>
       /\ accountInsights' = Null
       /\ accountDailyData' = <<>>]_vars

\* C30 (as claimed): whenever no call is in flight and both baseline slots have
\* been written, the baseline insights and the baseline daily series were
\* written by the same fetchInsights call (same account, same date range).
C30_BaselineFromOneLoad ==
  (calls = <<>> /\ baselineFrom.insights # Null /\ baselineFrom.daily # Null) =>
     baselineFrom.insights = baselineFrom.daily

====
